---- MODULE Spec2Model ----
(***************************************************************************)
(* Wire codec of the IBC objects of axon/src/object.rs: State, Ordering,   *)
(* ConnectionCounterparty, ChannelCounterparty, Version, ConnectionEnd,    *)
(* ChannelEnd, Packet, PacketAck, and the VerifyError code table.          *)
(*                                                                         *)
(* Every object is encoded with the rlp crate (rlp::encode / rlp::decode   *)
(* and the RlpEncodable / RlpDecodable derives), so the model is written   *)
(* at byte level: a buffer is a sequence of numbers in 0..255.             *)
(*                                                                         *)
(* Representation of Rust values:                                          *)
(*   u8, u16            a number                                           *)
(*   u64                its to_be_bytes(): a sequence of 8 bytes           *)
(*   String, Vec<u8>    the sequence of its bytes                          *)
(*   Vec<T>             a sequence                                         *)
(*   Option<T>          <<>> for None, <<v>> for Some(v)                   *)
(*   struct             a record with the fields' names                    *)
(*   enum variant       the variant's name as a string                     *)
(*   Result<T, E>       [ok |-> TRUE, val |-> v] or [ok |-> FALSE, err |-> e]*)
(***************************************************************************)
EXTENDS Integers, Sequences, FiniteSets, TLC

Ok(v) == [ok |-> TRUE, val |-> v]
Err(e) == [ok |-> FALSE, err |-> e]

\* let y = e in F(y), with e evaluated once
Let(e, F(_)) == CHOOSE v \in {F(y) : y \in {e}} : TRUE

\* F(e?) : the failure of e, or F of its value
Try(e, F(_)) == Let(e, LAMBDA r : IF r.ok THEN F(r.val) ELSE r)

\* ------------------------------------------------------------------------
\* rlp::RlpStream : the encoder
\* ------------------------------------------------------------------------

\* minimal big-endian bytes of a length (RlpStream::insert_size)
RECURSIVE to_be_min(_)
to_be_min(n) == IF n = 0 THEN <<>> ELSE Append(to_be_min(n \div 256), n % 256)

\* BasicEncoder::encode_value / encode_iter : a byte string item
encode_value(value) ==
  LET len == Len(value) IN
  IF len = 0 THEN <<128>>
  ELSE IF len <= 55
       THEN IF len = 1 /\ value[1] < 128
            THEN <<value[1]>>
            ELSE <<128 + len>> \o value
       ELSE LET size == to_be_min(len) IN <<183 + Len(size)>> \o size \o value

\* BasicEncoder::insert_list_payload : the header of a finished list
insert_list_payload(payload) ==
  LET len == Len(payload) IN
  IF len <= 55
  THEN <<192 + len>> \o payload
  ELSE LET size == to_be_min(len) IN <<247 + Len(size)>> \o size \o payload

\* concatenation of the items appended to a list, in order
RECURSIVE concat(_)
concat(items) == IF items = <<>> THEN <<>> ELSE Head(items) \o concat(Tail(items))

\* RlpStream::begin_list(n) followed by n appends
rlp_list(items) == insert_list_payload(concat(items))

\* buffer[leading_empty_bytes..] of an integer's to_be_bytes()
RECURSIVE strip_leading_zeros(_)
strip_leading_zeros(b) ==
  IF b # <<>> /\ Head(b) = 0 THEN strip_leading_zeros(Tail(b)) ELSE b

\* impl Encodable for u8
u8_encode(v) == IF v # 0 THEN encode_value(<<v>>) ELSE encode_value(<<>>)

\* impl Encodable for u16 (impl_encodable_for_u!)
u16_encode(v) == encode_value(strip_leading_zeros(<<v \div 256, v % 256>>))

\* impl Encodable for u64 (impl_encodable_for_u!); v is to_be_bytes()
u64_encode(v) == encode_value(strip_leading_zeros(v))

\* impl Encodable for String
String_encode(s) == encode_value(s)

\* impl Encodable for Vec<u8> (crate::Bytes), used by append(): a byte string
Bytes_encode(b) == encode_value(b)

\* VecU8_encode written as a byte string, as append() of a Vec<u8> writes it
VecU8_encode_as_bytes(v) == encode_value(v)

\* RlpStream::append_list::<u8, _> : the derive's encoding of a Vec<u8> field
VecU8_encode(v) == rlp_list([i \in 1..Len(v) |-> u8_encode(v[i])])

\* RlpStream::append_list::<String, _>
VecString_encode(v) == rlp_list([i \in 1..Len(v) |-> String_encode(v[i])])

\* OptionString_encode taking the empty string for no string
OptionString_encode_empty_is_none(o) ==
  IF o = <<>> \/ o[1] = <<>> THEN rlp_list(<<>>) ELSE rlp_list(<<String_encode(o[1])>>)

\* impl Encodable for Option<String>
OptionString_encode(o) ==
  IF o = <<>> THEN rlp_list(<<>>) ELSE rlp_list(<<String_encode(o[1])>>)

\* ------------------------------------------------------------------------
\* rlp::Rlp : the decoder.  A view is the byte sequence it covers.
\* ------------------------------------------------------------------------

\* Every length of 4 bytes or more is at least 2^24, beyond any buffer; it
\* is only ever compared with a buffer's length, so it is kept as 2^24.
HugeLen == 256 * 256 * 256

RECURSIVE be_value(_)
be_value(b) == IF b = <<>> THEN 0 ELSE be_value(SubSeq(b, 1, Len(b) - 1)) * 256 + b[Len(b)]

\* rlp::decode_usize
decode_usize(bytes) ==
  IF Len(bytes) <= 8   \* mem::size_of::<usize>()
  THEN IF bytes[1] = 0 THEN Err("RlpInvalidIndirection")
       ELSE IF Len(bytes) <= 3 THEN Ok(be_value(bytes)) ELSE Ok(HugeLen)
  ELSE Err("RlpIsTooBig")

\* usize::checked_add(begin_of_value, len) is None: the 8 length bytes hold
\* a value of at least 2^64 - begin_of_value
checked_add_is_none(len_bytes, begin_of_value) ==
  /\ Len(len_bytes) = 8
  /\ \A i \in 1..5 : len_bytes[i] = 255
  /\ be_value([i \in 1..3 |-> 255 - len_bytes[5 + i]]) < begin_of_value

\* rlpin.rs calculate_payload_info
calculate_payload_info(header_bytes, len_of_len) ==
  IF Len(header_bytes) < 2 THEN Err("RlpIsTooShort")
  ELSE IF header_bytes[2] = 0 THEN Err("RlpDataLenWithZeroPrefix")
  ELSE IF Len(header_bytes) < 1 + len_of_len THEN Err("RlpIsTooShort")
  ELSE Try(decode_usize(SubSeq(header_bytes, 2, 1 + len_of_len)), LAMBDA value_len :
         IF value_len <= 55 THEN Err("RlpInvalidIndirection")
         ELSE Ok([header_len |-> 1 + len_of_len, value_len |-> value_len]))

\* PayloadInfo::from
PayloadInfo_from(header_bytes) ==
  IF header_bytes = <<>> THEN Err("RlpIsTooShort")
  ELSE Let(header_bytes[1], LAMBDA l :
         IF l <= 127 THEN Ok([header_len |-> 0, value_len |-> 1])
         ELSE IF l <= 183 THEN Ok([header_len |-> 1, value_len |-> l - 128])
         ELSE IF l <= 191 THEN calculate_payload_info(header_bytes, l - 183)
         ELSE IF l <= 247 THEN Ok([header_len |-> 1, value_len |-> l - 192])
         ELSE calculate_payload_info(header_bytes, l - 247))

\* BasicDecoder::payload_info
payload_info(bytes) ==
  Try(PayloadInfo_from(bytes), LAMBDA item :
    IF item.header_len + item.value_len <= Len(bytes) THEN Ok(item)
    ELSE Err("RlpIsTooShort"))

\* Rlp::is_list
is_list(bytes) == bytes # <<>> /\ bytes[1] >= 192

\* Rlp::consume
consume(bytes, len) ==
  IF Len(bytes) >= len THEN Ok(SubSeq(bytes, len + 1, Len(bytes)))
  ELSE Err("RlpIsTooShort")

\* Rlp::consume_list_payload
consume_list_payload(bytes) ==
  Try(payload_info(bytes), LAMBDA item :
    Ok([bytes |-> SubSeq(bytes, item.header_len + 1, item.header_len + item.value_len),
        consumed |-> item.header_len]))

\* Rlp::consume_items
RECURSIVE consume_items(_, _)
consume_items(bytes, items) ==
  IF items = 0 THEN Ok([bytes |-> bytes, consumed |-> 0])
  ELSE Try(payload_info(bytes), LAMBDA i :
         Try(consume_items(SubSeq(bytes, i.header_len + i.value_len + 1, Len(bytes)),
                           items - 1),
             LAMBDA rest :
               Ok([bytes |-> rest.bytes,
                   consumed |-> i.header_len + i.value_len + rest.consumed])))

\* the view's offset_cache before any access (None)
NoCache == <<>>

\* a failed Rlp::at_with_offset, and the offset_cache it leaves
at_err(e, cache) == [ok |-> FALSE, err |-> e, cache |-> cache]

\* Rlp::at_with_offset.  cache is the view's offset_cache: NoCache or
\* <<index, offset>>.  The cached branch resumes in the view's own bytes,
\* not in the list payload, exactly as Rlp::consume(self.bytes, offset).
at(bytes, cache, index) ==
  IF ~is_list(bytes) THEN at_err("RlpExpectedToBeList", cache)
  ELSE
    Let(IF cache # NoCache /\ cache[1] <= index
        THEN Try(consume(bytes, cache[2]), LAMBDA c :
               Ok([bytes |-> c, skip |-> index - cache[1], consumed |-> cache[2]]))
        ELSE Try(consume_list_payload(bytes), LAMBDA p :
               Ok([bytes |-> p.bytes, skip |-> index, consumed |-> p.consumed])),
      LAMBDA start :
        IF ~start.ok THEN at_err(start.err, cache)
        ELSE
          Let(consume_items(start.val.bytes, start.val.skip), LAMBDA skipped :
            IF ~skipped.ok THEN at_err(skipped.err, cache)
            ELSE
              Let(payload_info(skipped.val.bytes), LAMBDA found :
                IF ~found.ok
                THEN at_err(found.err, <<index, start.val.consumed + skipped.val.consumed>>)
                ELSE [ok |-> TRUE,
                      val |-> SubSeq(skipped.val.bytes, 1,
                                     found.val.header_len + found.val.value_len),
                      cache |-> <<index, start.val.consumed + skipped.val.consumed>>])))

\* Rlp::iter : RlpIterator calls at(0), at(1), ... and ends at the first failure
RECURSIVE iter_from(_, _, _)
iter_from(bytes, cache, index) ==
  Let(at(bytes, cache, index), LAMBDA r :
    IF r.ok THEN <<r.val>> \o iter_from(bytes, r.cache, index + 1) ELSE <<>>)

iter(bytes) == iter_from(bytes, NoCache, 0)

\* Rlp::item_count
item_count(bytes) ==
  IF is_list(bytes) THEN Ok(Len(iter(bytes))) ELSE Err("RlpExpectedToBeList")

\* BasicDecoder::decode_value : the payload of a byte string item
decode_value(bytes) ==
  IF bytes = <<>> THEN Err("RlpIsTooShort")
  ELSE Let(bytes[1], LAMBDA l :
    IF l <= 127 THEN Ok(<<l>>)
    ELSE IF l <= 183 THEN
      IF Len(bytes) < 1 + l - 128 THEN Err("RlpInconsistentLengthAndData")
      ELSE IF l = 129 /\ bytes[2] < 128 THEN Err("RlpInvalidIndirection")
      ELSE Ok(SubSeq(bytes, 2, 1 + l - 128))
    ELSE IF l <= 191 THEN
      IF Len(bytes) < 1 + (l - 183) THEN Err("RlpInconsistentLengthAndData")
      ELSE Try(decode_usize(SubSeq(bytes, 2, 1 + (l - 183))), LAMBDA len :
             IF checked_add_is_none(SubSeq(bytes, 2, 1 + (l - 183)), 1 + (l - 183))
             THEN Err("RlpInvalidLength")
             ELSE IF Len(bytes) < 1 + (l - 183) + len
             THEN Err("RlpInconsistentLengthAndData")
             ELSE Ok(SubSeq(bytes, 1 + (l - 183) + 1, 1 + (l - 183) + len)))
    ELSE Err("RlpExpectedToBeData"))

\* the body of impl Decodable for u8, on the payload
u8_of(bytes) ==
  IF Len(bytes) = 1 /\ bytes[1] # 0 THEN Ok(bytes[1])
  ELSE IF Len(bytes) = 0 THEN Ok(0)
  ELSE IF Len(bytes) = 1 THEN Err("RlpInvalidIndirection")
  ELSE Err("RlpIsTooBig")

\* impl Decodable for u8
u8_decode(rlp) == Try(decode_value(rlp), u8_of)

\* u16_decode keeping the low 16 bits of a wider value
u16_decode_wrapping(rlp) ==
  Try(decode_value(rlp), LAMBDA b :
    IF Len(b) <= 1 THEN u8_of(b)
    ELSE IF b[1] = 0 THEN Err("RlpInvalidIndirection")
    ELSE Ok(b[Len(b) - 1] * 256 + b[Len(b)]))

\* impl Decodable for u16 (impl_decodable_for_u!)
u16_decode(rlp) ==
  Try(decode_value(rlp), LAMBDA b :
    IF Len(b) <= 1 THEN u8_of(b)
    ELSE IF Len(b) <= 2
         THEN IF b[1] = 0 THEN Err("RlpInvalidIndirection") ELSE Ok(b[1] * 256 + b[2])
    ELSE Err("RlpIsTooBig"))

\* the 8 bytes of a u64 whose significant bytes are b
pad8(b) == [i \in 1..8 |-> IF i <= 8 - Len(b) THEN 0 ELSE b[i - (8 - Len(b))]]

\* impl Decodable for u64 (impl_decodable_for_u!)
u64_decode(rlp) ==
  Try(decode_value(rlp), LAMBDA b :
    IF Len(b) <= 1 THEN Try(u8_of(b), LAMBDA v : Ok(pad8(<<v>>)))
    ELSE IF Len(b) <= 8
         THEN IF b[1] = 0 THEN Err("RlpInvalidIndirection") ELSE Ok(pad8(b))
    ELSE Err("RlpIsTooBig"))

\* core::str::from_utf8 succeeds
RECURSIVE from_utf8_ok(_)
from_utf8_ok(b) ==
  IF b = <<>> THEN TRUE
  ELSE LET c == b[1]
           cont(i) == i <= Len(b) /\ b[i] >= 128 /\ b[i] <= 191
           rest(n) == from_utf8_ok(SubSeq(b, n + 1, Len(b)))
       IN
       IF c <= 127 THEN rest(1)
       ELSE IF c >= 194 /\ c <= 223 THEN cont(2) /\ rest(2)
       ELSE IF c = 224 THEN Len(b) >= 2 /\ b[2] >= 160 /\ b[2] <= 191 /\ cont(3) /\ rest(3)
       ELSE IF c = 237 THEN Len(b) >= 2 /\ b[2] >= 128 /\ b[2] <= 159 /\ cont(3) /\ rest(3)
       ELSE IF c >= 225 /\ c <= 239 THEN cont(2) /\ cont(3) /\ rest(3)
       ELSE IF c = 240
            THEN Len(b) >= 2 /\ b[2] >= 144 /\ b[2] <= 191 /\ cont(3) /\ cont(4) /\ rest(4)
       ELSE IF c >= 241 /\ c <= 243 THEN cont(2) /\ cont(3) /\ cont(4) /\ rest(4)
       ELSE IF c = 244
            THEN Len(b) >= 2 /\ b[2] >= 128 /\ b[2] <= 143 /\ cont(3) /\ cont(4) /\ rest(4)
       ELSE FALSE

\* impl Decodable for String
String_decode(rlp) ==
  Try(decode_value(rlp), LAMBDA b :
    IF from_utf8_ok(b) THEN Ok(b) ELSE Err("RlpExpectedToBeData"))

\* impl Decodable for Vec<u8> (crate::Bytes), used by val_at()
Bytes_decode(rlp) == decode_value(rlp)

\* Iterator::collect::<Result<Vec<_>, _>> : the first failure, or the values
RECURSIVE collect(_)
collect(results) ==
  IF results = <<>> THEN Ok(<<>>)
  ELSE Try(Head(results), LAMBDA h :
         Try(collect(Tail(results)), LAMBDA rest : Ok(<<h>> \o rest)))

\* Rlp::as_list::<u8> : every item of iter() decoded; the derive's decoding
\* of a Vec<u8> field
VecU8_decode(rlp) ==
  Let(iter(rlp), LAMBDA items : collect([i \in 1..Len(items) |-> u8_decode(items[i])]))

\* Rlp::as_list::<String>
VecString_decode(rlp) ==
  Let(iter(rlp), LAMBDA items : collect([i \in 1..Len(items) |-> String_decode(items[i])]))

\* the item of a successful at(), or its failure: the at(i)? of val_at and list_at
at_item(view) == IF view.ok THEN Ok(view.val) ELSE Err(view.err)

\* Rlp::at(0) on a view not read before
at_0(rlp) == at_item(at(rlp, NoCache, 0))

\* impl Decodable for Option<String>
OptionString_decode(rlp) ==
  Try(item_count(rlp), LAMBDA items :
    IF items = 1 THEN Try(Try(at_0(rlp), String_decode), LAMBDA v : Ok(<<v>>))
    ELSE IF items = 0 THEN Ok(<<>>)
    ELSE Err("RlpIncorrectListLen"))

\* the views of the first n items of a struct's list, as the derive reads
\* them: val_at(0), val_at(1), ... on one view, sharing its offset_cache;
\* a failure ends the reading, and stands for the items after it
RECURSIVE views_from(_, _, _, _)
views_from(rlp, cache, index, n) ==
  IF index = n THEN <<>>
  ELSE Let(at(rlp, cache, index), LAMBDA r :
         IF r.ok THEN <<r>> \o views_from(rlp, r.cache, index + 1, n)
         ELSE [j \in 1..(n - index) |-> r])

views(rlp, n) == views_from(rlp, NoCache, 0, n)

\* ------------------------------------------------------------------------
\* State and Ordering
\* ------------------------------------------------------------------------

StateVariants == <<"Unknown", "Init", "OpenTry", "Open", "Closed", "Frozen">>
OrderingVariants == <<"Unknown", "Unordered", "Ordered">>

\* position of a variant in its declaration
index_of(variants, v) == CHOOSE i \in 1..Len(variants) : variants[i] = v

\* *self as u8 : Unknown = 1, then one more per variant
State_as_u8(v) == 1 + (index_of(StateVariants, v) - 1)
Ordering_as_u8(v) == 1 + (index_of(OrderingVariants, v) - 1)

\* State_rlp_append writing the tag alone, without begin_list(1)
State_rlp_append_bare(v) == u8_encode(State_as_u8(v))

\* impl Encodable for State
State_rlp_append(v) == rlp_list(<<u8_encode(State_as_u8(v))>>)

\* State_decode without the arm of the last variant
State_decode_without_frozen(rlp) ==
  Try(Try(at_0(rlp), u8_decode), LAMBDA state :
    IF state = 1 THEN Ok("Unknown")
    ELSE IF state = 2 THEN Ok("Init")
    ELSE IF state = 3 THEN Ok("OpenTry")
    ELSE IF state = 4 THEN Ok("Open")
    ELSE IF state = 5 THEN Ok("Closed")
    ELSE Err("invalid state"))

\* State_decode falling back to the default variant
State_decode_or_default(rlp) ==
  Try(Try(at_0(rlp), u8_decode), LAMBDA state :
    IF state = 2 THEN Ok("Init")
    ELSE IF state = 3 THEN Ok("OpenTry")
    ELSE IF state = 4 THEN Ok("Open")
    ELSE IF state = 5 THEN Ok("Closed")
    ELSE IF state = 6 THEN Ok("Frozen")
    ELSE Ok("Unknown"))

\* impl Decodable for State
State_decode(rlp) ==
  Try(Try(at_0(rlp), u8_decode), LAMBDA state :
    IF state = 1 THEN Ok("Unknown")
    ELSE IF state = 2 THEN Ok("Init")
    ELSE IF state = 3 THEN Ok("OpenTry")
    ELSE IF state = 4 THEN Ok("Open")
    ELSE IF state = 5 THEN Ok("Closed")
    ELSE IF state = 6 THEN Ok("Frozen")
    ELSE Err("invalid state"))

\* impl Encodable for Ordering
Ordering_rlp_append(v) == rlp_list(<<u8_encode(Ordering_as_u8(v))>>)

\* impl Decodable for Ordering
Ordering_decode(rlp) ==
  Try(Try(at_0(rlp), u8_decode), LAMBDA ordering :
    IF ordering = 1 THEN Ok("Unknown")
    ELSE IF ordering = 2 THEN Ok("Unordered")
    ELSE IF ordering = 3 THEN Ok("Ordered")
    ELSE Err("invalid ordering"))

\* ------------------------------------------------------------------------
\* The derived codecs
\* ------------------------------------------------------------------------

\* #[derive(RlpEncodable)] ConnectionCounterparty
ConnectionCounterparty_rlp_append(c) ==
  rlp_list(<<String_encode(c.client_id),
             OptionString_encode(c.connection_id),
             Bytes_encode(c.commitment_prefix)>>)

\* #[derive(RlpDecodable)] ConnectionCounterparty
ConnectionCounterparty_decode(rlp) ==
  Let(views(rlp, 3), LAMBDA v :
    Try(collect(<<Try(at_item(v[1]), String_decode),
                  Try(at_item(v[2]), OptionString_decode),
                  Try(at_item(v[3]), Bytes_decode)>>),
        LAMBDA r :
          Ok([client_id |-> r[1], connection_id |-> r[2],
              commitment_prefix |-> r[3]])))

\* #[derive(RlpEncodable)] ChannelCounterparty
ChannelCounterparty_rlp_append(c) ==
  rlp_list(<<String_encode(c.port_id), String_encode(c.channel_id)>>)

\* #[derive(RlpDecodable)] ChannelCounterparty
ChannelCounterparty_decode(rlp) ==
  Let(views(rlp, 2), LAMBDA v :
    Try(collect(<<Try(at_item(v[1]), String_decode),
                  Try(at_item(v[2]), String_decode)>>),
        LAMBDA r :
          Ok([port_id |-> r[1], channel_id |-> r[2]])))

\* #[derive(RlpEncodable)] Packet
Packet_rlp_append(p) ==
  rlp_list(<<u16_encode(p.sequence),
             String_encode(p.source_port_id),
             String_encode(p.source_channel_id),
             String_encode(p.destination_port_id),
             String_encode(p.destination_channel_id),
             VecU8_encode(p.data),
             u64_encode(p.timeout_height),
             u64_encode(p.timeout_timestamp)>>)

\* #[derive(RlpDecodable)] Packet
Packet_rlp_decode(rlp) ==
  Let(views(rlp, 8), LAMBDA v :
    Try(collect(<<Try(at_item(v[1]), u16_decode),
                  Try(at_item(v[2]), String_decode),
                  Try(at_item(v[3]), String_decode),
                  Try(at_item(v[4]), String_decode),
                  Try(at_item(v[5]), String_decode),
                  Try(at_item(v[6]), VecU8_decode),
                  Try(at_item(v[7]), u64_decode),
                  Try(at_item(v[8]), u64_decode)>>),
        LAMBDA r :
          Ok([sequence |-> r[1],
              source_port_id |-> r[2],
              source_channel_id |-> r[3],
              destination_port_id |-> r[4],
              destination_channel_id |-> r[5],
              data |-> r[6],
              timeout_height |-> r[7],
              timeout_timestamp |-> r[8]])))

\* #[derive(RlpEncodable)] Version
Version_rlp_append(v) ==
  rlp_list(<<String_encode(v.identifier), VecString_encode(v.features)>>)

\* #[derive(RlpDecodable)] Version
Version_decode(rlp) ==
  Let(views(rlp, 2), LAMBDA v :
    Try(collect(<<Try(at_item(v[1]), String_decode),
                  Try(at_item(v[2]), VecString_decode)>>),
        LAMBDA r :
          Ok([identifier |-> r[1], features |-> r[2]])))

\* RlpStream::append_list::<Version, _>
VecVersion_encode(v) == rlp_list([i \in 1..Len(v) |-> Version_rlp_append(v[i])])

\* Rlp::as_list::<Version>
VecVersion_decode(rlp) ==
  Let(iter(rlp), LAMBDA items : collect([i \in 1..Len(items) |-> Version_decode(items[i])]))

\* #[derive(RlpEncodable)] ConnectionEnd
ConnectionEnd_rlp_append(c) ==
  rlp_list(<<State_rlp_append(c.state),
             String_encode(c.client_id),
             ConnectionCounterparty_rlp_append(c.counterparty),
             u64_encode(c.delay_period),
             VecVersion_encode(c.versions)>>)

\* #[derive(RlpDecodable)] ConnectionEnd
ConnectionEnd_rlp_decode(rlp) ==
  Let(views(rlp, 5), LAMBDA v :
    Try(collect(<<Try(at_item(v[1]), State_decode),
                  Try(at_item(v[2]), String_decode),
                  Try(at_item(v[3]), ConnectionCounterparty_decode),
                  Try(at_item(v[4]), u64_decode),
                  Try(at_item(v[5]), VecVersion_decode)>>),
        LAMBDA r :
          Ok([state |-> r[1], client_id |-> r[2], counterparty |-> r[3],
              delay_period |-> r[4], versions |-> r[5]])))

\* #[derive(RlpEncodable)] ChannelEnd
ChannelEnd_rlp_append(c) ==
  rlp_list(<<State_rlp_append(c.state),
             Ordering_rlp_append(c.ordering),
             ChannelCounterparty_rlp_append(c.remote),
             VecString_encode(c.connection_hops)>>)

\* #[derive(RlpDecodable)] ChannelEnd
ChannelEnd_rlp_decode(rlp) ==
  Let(views(rlp, 4), LAMBDA v :
    Try(collect(<<Try(at_item(v[1]), State_decode),
                  Try(at_item(v[2]), Ordering_decode),
                  Try(at_item(v[3]), ChannelCounterparty_decode),
                  Try(at_item(v[4]), VecString_decode)>>),
        LAMBDA r :
          Ok([state |-> r[1], ordering |-> r[2], remote |-> r[3],
              connection_hops |-> r[4]])))

\* #[derive(RlpEncodable)] PacketAck
PacketAck_rlp_append(a) ==
  rlp_list(<<VecU8_encode(a.ack), Packet_rlp_append(a.packet)>>)

\* #[derive(RlpDecodable)] PacketAck
PacketAck_rlp_decode(rlp) ==
  Let(views(rlp, 2), LAMBDA v :
    Try(collect(<<Try(at_item(v[1]), VecU8_decode),
                  Try(at_item(v[2]), Packet_rlp_decode)>>),
        LAMBDA r :
          Ok([ack |-> r[1], packet |-> r[2]])))

\* ------------------------------------------------------------------------
\* impl Object
\* ------------------------------------------------------------------------

\* map_err handing the decoder's own error on
map_err_identity(r) == r

\* .map_err(|_| VerifyError::SerdeError)
map_err(r) == IF r.ok THEN r ELSE Err("SerdeError")

\* impl Object for Packet
Packet_encode(p) == Packet_rlp_append(p)
Packet_decode(data) == map_err(Packet_rlp_decode(data))

\* impl Object for ConnectionEnd
ConnectionEnd_encode(c) == ConnectionEnd_rlp_append(c)
ConnectionEnd_decode(data) == map_err(ConnectionEnd_rlp_decode(data))

\* impl Object for ChannelEnd
ChannelEnd_encode(c) == ChannelEnd_rlp_append(c)
ChannelEnd_decode(data) == map_err(ChannelEnd_rlp_decode(data))

\* impl Object for PacketAck
PacketAck_encode(a) == PacketAck_rlp_append(a)
PacketAck_decode(data) == map_err(PacketAck_rlp_decode(data))

\* equal_unless_sequence leaving data out of the comparison
equal_unless_sequence_without_data(self, other) ==
  <<self.source_port_id, self.source_channel_id, self.destination_port_id,
    self.destination_channel_id, self.timeout_height, self.timeout_timestamp>>
  = <<other.source_port_id, other.source_channel_id, other.destination_port_id,
      other.destination_channel_id, other.timeout_height, other.timeout_timestamp>>

\* Packet::equal_unless_sequence
equal_unless_sequence(self, other) ==
  <<self.source_port_id, self.source_channel_id, self.destination_port_id,
    self.destination_channel_id, self.data, self.timeout_height,
    self.timeout_timestamp>>
  = <<other.source_port_id, other.source_channel_id, other.destination_port_id,
      other.destination_channel_id, other.data, other.timeout_height,
      other.timeout_timestamp>>

\* ------------------------------------------------------------------------
\* VerifyError
\* ------------------------------------------------------------------------

\* the variants in declaration order
VerifyErrorVariants ==
  <<"FoundNoMessage", "EventNotMatch", "InvalidReceiptProof", "SerdeError",
    "WrongClient", "WrongConnectionId", "WrongConnectionnNumber", "WrongPortId",
    "WrongCommonHexId", "ConnectionsWrong", "WrongConnectionCnt",
    "WrongConnectionState", "WrongConnectionCounterparty", "WrongConnectionClient",
    "WrongConnectionNextChannelNumber", "WrongConnectionArgs", "WrongChannelState",
    "WrongChannel", "WrongChannelArgs", "WrongChannelSequence", "WrongUnusedPacket",
    "WrongPacketSequence", "WrongPacketStatus", "WrongPacketContent",
    "WrongPacketArgs">>

\* FoundNoMessage = 100
FoundNoMessage == 100

\* discriminant numbered from 110
discriminant_from_110(value) == 110 + (index_of(VerifyErrorVariants, value) - 1)

\* the discriminant: the first is explicit, each next is one more
discriminant(value) == FoundNoMessage + (index_of(VerifyErrorVariants, value) - 1)

\* a number cast to i8 (two's complement, 8 bits)
as_i8(n) == ((n + 128) % 256) - 128

\* impl From<VerifyError> for i8
i8_from(value) == as_i8(discriminant(value))

\* ------------------------------------------------------------------------
\* Inputs
\* ------------------------------------------------------------------------

\* longest data / ack payload, longest list (features, versions, hops) and
\* length of the long identifier (above 55 bytes the item header is long)
MaxDataLen == 2
MaxListLen == 2
LongStrLen == 56

RECURSIVE SeqsUpTo(_, _)
SeqsUpTo(S, n) ==
  IF n = 0 THEN {<<>>}
  ELSE LET shorter == SeqsUpTo(S, n - 1) IN
       shorter \cup {Append(t, x) : t \in {u \in shorter : Len(u) = n - 1}, x \in S}

\* "p1", "channel-0", "channel-1", "connection-0", "1"
Str_p1 == <<112, 49>>
Str_channel0 == <<99, 104, 97, 110, 110, 101, 108, 45, 48>>
Str_channel1 == <<99, 104, 97, 110, 110, 101, 108, 45, 49>>
Str_connection0 == <<99, 111, 110, 110, 101, 99, 116, 105, 111, 110, 45, 48>>
Str_1 == <<49>>
\* a run of '0' digits, as convert_byte32_to_hex renders zero bytes
Str_long == [i \in 1..LongStrLen |-> 48]

\* "", "p1", one byte below 0x80, a two-byte UTF-8 character, a long string
StrVals == {<<>>, Str_p1, <<127>>, <<195, 169>>, Str_long}

U16Vals == {0, 1, 5, 127, 128, 255, 256, 65535}

U64Vals == {pad8(<<>>), pad8(<<1>>), pad8(<<100>>), pad8(<<127>>), pad8(<<128>>),
            pad8(<<255>>), pad8(<<1, 0>>), pad8(<<1, 0, 0, 0, 0, 0, 0, 0>>),
            pad8(<<255, 255, 255, 255, 255, 255, 255, 255>>)}

DataVals == SeqsUpTo({0, 127, 128, 255}, MaxDataLen) \cup {<<1, 2, 3>>}

BasePacket ==
  [sequence |-> 5, source_port_id |-> Str_p1, source_channel_id |-> Str_channel0,
   destination_port_id |-> Str_p1, destination_channel_id |-> Str_channel1,
   data |-> <<1, 2, 3>>, timeout_height |-> pad8(<<100>>),
   timeout_timestamp |-> pad8(<<>>)]

\* the base packet with one field replaced, for every field and sample value
Packets ==
  {[BasePacket EXCEPT !.sequence = v] : v \in U16Vals}
  \cup {[BasePacket EXCEPT !.source_port_id = v] : v \in StrVals}
  \cup {[BasePacket EXCEPT !.source_channel_id = v] : v \in StrVals}
  \cup {[BasePacket EXCEPT !.destination_port_id = v] : v \in StrVals}
  \cup {[BasePacket EXCEPT !.destination_channel_id = v] : v \in StrVals}
  \cup {[BasePacket EXCEPT !.data = v] : v \in DataVals}
  \cup {[BasePacket EXCEPT !.timeout_height = v] : v \in U64Vals}
  \cup {[BasePacket EXCEPT !.timeout_timestamp = v] : v \in U64Vals}

OptionStrVals == {<<>>, << <<>> >>, <<Str_connection0>>}

BaseCounterparty ==
  [client_id |-> Str_p1, connection_id |-> <<>>, commitment_prefix |-> <<105, 98, 99>>]

ConnectionCounterparties ==
  {[BaseCounterparty EXCEPT !.client_id = v] : v \in StrVals}
  \cup {[BaseCounterparty EXCEPT !.connection_id = v] : v \in OptionStrVals}
  \cup {[BaseCounterparty EXCEPT !.commitment_prefix = v] : v \in {<<>>, <<0>>, <<128>>}}

\* Version::default() is "1" with ORDER_ORDERED, ORDER_UNORDERED; the
\* features here are short stand-ins for the two names
Versions ==
  {[identifier |-> i, features |-> f] :
     i \in {<<>>, Str_1}, f \in SeqsUpTo({<<79>>, <<79, 85>>}, MaxListLen)}

BaseConnectionEnd ==
  [state |-> "Open", client_id |-> Str_p1, counterparty |-> BaseCounterparty,
   delay_period |-> pad8(<<>>), versions |-> <<>>]

ConnectionEnds ==
  {[BaseConnectionEnd EXCEPT !.state = StateVariants[i]] : i \in 1..Len(StateVariants)}
  \cup {[BaseConnectionEnd EXCEPT !.client_id = v] : v \in StrVals}
  \cup {[BaseConnectionEnd EXCEPT !.counterparty = v] : v \in ConnectionCounterparties}
  \cup {[BaseConnectionEnd EXCEPT !.delay_period = v] : v \in U64Vals}
  \cup {[BaseConnectionEnd EXCEPT !.versions = <<v>>] : v \in Versions}
  \cup {[BaseConnectionEnd EXCEPT !.versions = v] :
          v \in SeqsUpTo({[identifier |-> <<>>, features |-> <<>>],
                          [identifier |-> Str_1, features |-> <<<<79>>, <<79, 85>>>>]},
                         MaxListLen)}

BaseChannelEnd ==
  [state |-> "Open", ordering |-> "Unordered",
   remote |-> [port_id |-> Str_p1, channel_id |-> Str_channel1],
   connection_hops |-> <<Str_connection0>>]

ChannelEnds ==
  {[BaseChannelEnd EXCEPT !.state = StateVariants[i], !.ordering = OrderingVariants[j]] :
     i \in 1..Len(StateVariants), j \in 1..Len(OrderingVariants)}
  \cup {[BaseChannelEnd EXCEPT !.remote = [port_id |-> a, channel_id |-> b]] :
          a \in StrVals, b \in {<<>>, Str_channel0}}
  \cup {[BaseChannelEnd EXCEPT !.connection_hops = v] :
          v \in SeqsUpTo({<<>>, Str_p1, Str_connection0}, MaxListLen)}

PacketAcks ==
  {[ack |-> a, packet |-> BasePacket] : a \in DataVals}
  \cup {[ack |-> <<1>>, packet |-> [BasePacket EXCEPT !.sequence = v]] : v \in U16Vals}
  \cup {[ack |-> <<>>, packet |-> [BasePacket EXCEPT !.data = v]] : v \in DataVals}

\* what the wire did to an encoding before it is decoded
NoTamper == [op |-> "none", n |-> 0, item |-> <<>>]

\* bytes appended after an encoding
TrailingBytes == {<<0>>, <<128>>, <<193, 1>>}

\* items appended at the end of an encoding's list
SurplusItems == {<<1>>, <<128>>, <<192>>}

\* integer payloads put in place of an integer field: minimal ones, ones
\* with a leading zero byte, ones wider than 16 and than 64 bits
IntPayloads ==
  {<<>>, <<5>>, <<0>>, <<0, 5>>, <<255, 255>>, <<1, 0, 0>>,
   <<0, 0, 0, 0, 0, 0, 0, 1>>, <<255, 255, 255, 255, 255, 255, 255, 255>>,
   <<1, 0, 0, 0, 0, 0, 0, 0, 0>>}

\* the positions (from 0) of the integer fields of a struct
IntFields(k) ==
  IF k = "Packet" THEN {0, 6, 7} ELSE IF k = "ConnectionEnd" THEN {3} ELSE {}

\* the width in bytes of the integer field at a position
IntWidth(k, i) == IF k = "Packet" /\ i = 0 THEN 2 ELSE 8

\* ------------------------------------------------------------------------
\* Encoding an object, carrying the bytes, decoding them
\* ------------------------------------------------------------------------

VARIABLES pc, kind, value, bytes, tamper, result

vars == <<pc, kind, value, bytes, tamper, result>>

ObjectKinds == {"Packet", "ConnectionEnd", "ChannelEnd", "PacketAck"}

ValuesOf(k) ==
  IF k = "Packet" THEN Packets
  ELSE IF k = "ConnectionEnd" THEN ConnectionEnds
  ELSE IF k = "ChannelEnd" THEN ChannelEnds
  ELSE IF k = "PacketAck" THEN PacketAcks
  ELSE ConnectionCounterparties

Init ==
  /\ pc = "built"
  /\ kind \in ObjectKinds \cup {"ConnectionCounterparty"}
  /\ value \in ValuesOf(kind)
  /\ bytes = <<>>
  /\ tamper = NoTamper
  /\ result = Err("none")

Encoded(k, b) ==
  /\ pc = "built"
  /\ kind = k
  /\ bytes' = b
  /\ pc' = "encoded"
  /\ UNCHANGED <<kind, value, tamper, result>>

Decoded(k, r) ==
  /\ pc \in {"encoded", "wire"}
  /\ kind = k
  /\ result' = r
  /\ pc' = "decoded"
  /\ UNCHANGED <<kind, value, bytes, tamper>>

EncodePacket == Encoded("Packet", Packet_encode(value))
DecodePacket == Decoded("Packet", Packet_decode(bytes))

EncodeConnectionEnd == Encoded("ConnectionEnd", ConnectionEnd_encode(value))
DecodeConnectionEnd == Decoded("ConnectionEnd", ConnectionEnd_decode(bytes))

EncodeChannelEnd == Encoded("ChannelEnd", ChannelEnd_encode(value))
DecodeChannelEnd == Decoded("ChannelEnd", ChannelEnd_decode(bytes))

EncodePacketAck == Encoded("PacketAck", PacketAck_encode(value))
DecodePacketAck == Decoded("PacketAck", PacketAck_decode(bytes))

\* rlp::encode / rlp::decode of the derived ConnectionCounterparty codec
EncodeConnectionCounterparty ==
  Encoded("ConnectionCounterparty", ConnectionCounterparty_rlp_append(value))
DecodeConnectionCounterparty ==
  Decoded("ConnectionCounterparty", ConnectionCounterparty_decode(bytes))

Tampered(t, b) ==
  /\ pc = "encoded"
  /\ tamper = NoTamper
  /\ tamper' = t
  /\ bytes' = b
  /\ pc' = "wire"
  /\ UNCHANGED <<kind, value, result>>

\* the encoding loses its last n bytes
Truncate ==
  \E n \in 1..Len(bytes) :
    Tampered([op |-> "truncate", n |-> n, item |-> <<>>], SubSeq(bytes, 1, Len(bytes) - n))

\* bytes follow the encoding
AppendTrailing ==
  \E t \in TrailingBytes :
    Tampered([op |-> "trailing", n |-> 0, item |-> t], bytes \o t)

\* the list carries one more item than the struct has fields
AppendItem ==
  \E item \in SurplusItems :
    Tampered([op |-> "surplus", n |-> Len(iter(bytes)), item |-> item],
             rlp_list(iter(bytes) \o <<item>>))

\* an integer field's item is replaced by the byte string item of a payload
ReplaceInt ==
  \E i \in IntFields(kind), p \in IntPayloads :
    Tampered([op |-> "int", n |-> i, item |-> p],
             rlp_list([j \in 1..Len(iter(bytes)) |->
                         IF j = i + 1 THEN encode_value(p) ELSE iter(bytes)[j]]))

Next ==
  \/ EncodePacket \/ DecodePacket
  \/ EncodeConnectionEnd \/ DecodeConnectionEnd
  \/ EncodeChannelEnd \/ DecodeChannelEnd
  \/ EncodePacketAck \/ DecodePacketAck
  \/ EncodeConnectionCounterparty \/ DecodeConnectionCounterparty
  \/ Truncate \/ AppendTrailing \/ AppendItem \/ ReplaceInt

Spec == Init /\ [][Next]_vars

\* ------------------------------------------------------------------------
\* State and Ordering on their own: rlp::encode(&state), rlp::decode::<State>
\* ------------------------------------------------------------------------

\* longest byte sequence handed to the decoder as it is
MaxRawLen == 3

\* list headers, string headers, tags in and out of range
RawBytes == {0, 1, 3, 6, 7, 128, 129, 193, 194, 255}

EnumKinds == {"State", "Ordering"}

VariantsOf(k) == IF k = "State" THEN StateVariants ELSE OrderingVariants

\* bytes that reach the decoder without coming from the encoder: a list of
\* one u8 item n, the u8 item n alone, or arbitrary bytes
EnumWires ==
  {[op |-> "tag", n |-> t, item |-> rlp_list(<<u8_encode(t)>>)] : t \in 0..255}
  \cup {[op |-> "bare", n |-> t, item |-> u8_encode(t)] : t \in 0..255}
  \cup {[op |-> "raw", n |-> 0, item |-> b] : b \in SeqsUpTo(RawBytes, MaxRawLen)}

InitEnum ==
  /\ kind \in EnumKinds
  /\ result = Err("none")
  /\ \/ /\ pc = "built"
        /\ value \in {VariantsOf(kind)[i] : i \in 1..Len(VariantsOf(kind))}
        /\ bytes = <<>>
        /\ tamper = NoTamper
     \/ /\ pc = "wire"
        /\ value = "Unknown"
        /\ tamper \in EnumWires
        /\ bytes = tamper.item

EncodeState == Encoded("State", State_rlp_append(value))
DecodeState == Decoded("State", State_decode(bytes))

EncodeOrdering == Encoded("Ordering", Ordering_rlp_append(value))
DecodeOrdering == Decoded("Ordering", Ordering_decode(bytes))

NextEnum ==
  \/ EncodeState \/ DecodeState
  \/ EncodeOrdering \/ DecodeOrdering
  \/ Truncate \/ AppendTrailing \/ AppendItem

SpecEnum == InitEnum /\ [][NextEnum]_vars

\* ------------------------------------------------------------------------
\* Packet::equal_unless_sequence on three packets
\* ------------------------------------------------------------------------

\* the base packet, with other sequences, with one other field changed,
\* with the sequence and one other field changed
EqPackets ==
  {[BasePacket EXCEPT !.sequence = v] : v \in {5, 6, 65535}}
  \cup {[BasePacket EXCEPT !.source_port_id = <<>>],
        [BasePacket EXCEPT !.source_channel_id = Str_channel1],
        [BasePacket EXCEPT !.destination_port_id = <<>>],
        [BasePacket EXCEPT !.destination_channel_id = Str_channel0],
        [BasePacket EXCEPT !.timeout_height = pad8(<<>>)],
        [BasePacket EXCEPT !.timeout_timestamp = pad8(<<1>>)]}
  \cup {[BasePacket EXCEPT !.data = v, !.sequence = q] :
          v \in SeqsUpTo({1, 2}, MaxDataLen - 1), q \in {5, 6}}

InitEq ==
  /\ pc = "built"
  /\ kind = "Packets"
  /\ value \in EqPackets \X EqPackets \X EqPackets
  /\ bytes = <<>>
  /\ tamper = NoTamper
  /\ result = Err("none")

\* a.equal_unless_sequence(&b) for the pairs of <<a, b, c>>
EqualUnlessSequence ==
  /\ pc = "built"
  /\ kind = "Packets"
  /\ result' = [aa |-> equal_unless_sequence(value[1], value[1]),
                ab |-> equal_unless_sequence(value[1], value[2]),
                ba |-> equal_unless_sequence(value[2], value[1]),
                bc |-> equal_unless_sequence(value[2], value[3]),
                ac |-> equal_unless_sequence(value[1], value[3])]
  /\ pc' = "compared"
  /\ UNCHANGED <<kind, value, bytes, tamper>>

NextEq == EqualUnlessSequence

SpecEq == InitEq /\ [][NextEq]_vars

\* ------------------------------------------------------------------------
\* i8::from(VerifyError) on two errors
\* ------------------------------------------------------------------------

VerifyErrors == {VerifyErrorVariants[i] : i \in 1..Len(VerifyErrorVariants)}

InitErr ==
  /\ pc = "built"
  /\ kind = "VerifyErrors"
  /\ value \in VerifyErrors \X VerifyErrors
  /\ bytes = <<>>
  /\ tamper = NoTamper
  /\ result = Err("none")

Convert ==
  /\ pc = "built"
  /\ kind = "VerifyErrors"
  /\ result' = <<i8_from(value[1]), i8_from(value[2])>>
  /\ pc' = "converted"
  /\ UNCHANGED <<kind, value, bytes, tamper>>

NextErr == Convert

SpecErr == InitErr /\ [][NextErr]_vars

\* ------------------------------------------------------------------------
\* Properties
\* ------------------------------------------------------------------------

\* C1: for Packet, ConnectionEnd, ChannelEnd and PacketAck, decode(encode(x))
\* succeeds and returns a value equal to x in every field, nested ones
\* included.
C1_RoundTrip ==
  (pc = "decoded" /\ tamper = NoTamper /\ kind \in ObjectKinds)
    => (result.ok /\ result.val = value)

\* a PacketAck with a non-empty ack and data came back whole
C1_Witness ==
  /\ pc = "decoded" /\ tamper = NoTamper /\ kind = "PacketAck"
  /\ value.ack # <<>> /\ value.packet.data # <<>>
  /\ result.ok /\ result.val.ack = value.ack /\ result.val.packet = value.packet

\* C2: every variant of State and of Ordering, the last ones included,
\* decodes from its own encoding to itself.
C2_EnumRoundTrip ==
  (pc = "decoded" /\ tamper = NoTamper /\ kind \in EnumKinds)
    => (result.ok /\ result.val = value)

\* the last variant of State came back
C2_Witness ==
  /\ pc = "decoded" /\ tamper = NoTamper /\ kind = "State" /\ value = "Frozen"
  /\ result.ok /\ result.val = "Frozen"

\* C3: a State decodes only from a tag in 1..6 and an Ordering only from a
\* tag in 1..3, each tag to its own variant; every other 8-bit tag is an
\* error, never Unknown.
C3_EnumClosure ==
  (pc = "decoded" /\ kind \in EnumKinds) =>
    /\ tamper.op = "tag" =>
         IF tamper.n \in 1..Len(VariantsOf(kind))
         THEN result.ok /\ result.val = VariantsOf(kind)[tamper.n]
         ELSE ~result.ok
    /\ result.ok =>
         /\ Len(bytes) >= 2 /\ bytes[1] >= 192
         /\ bytes[2] \in 1..Len(VariantsOf(kind))
         /\ result.val = VariantsOf(kind)[bytes[2]]

\* tag 255 was refused
C3_Witness ==
  /\ pc = "decoded" /\ kind = "State" /\ tamper.op = "tag" /\ tamper.n = 255
  /\ ~result.ok

\* every field but sequence agrees
SameButSequence(a, b) ==
  /\ a.source_port_id = b.source_port_id
  /\ a.source_channel_id = b.source_channel_id
  /\ a.destination_port_id = b.destination_port_id
  /\ a.destination_channel_id = b.destination_channel_id
  /\ a.data = b.data
  /\ a.timeout_height = b.timeout_height
  /\ a.timeout_timestamp = b.timeout_timestamp

\* C4: equal_unless_sequence(a, b) is true exactly when the seven fields
\* other than sequence agree, whatever the sequences; it is reflexive,
\* symmetric and transitive.
C4_EqualUnlessSequence ==
  pc = "compared" =>
    /\ result.ab = SameButSequence(value[1], value[2])
    /\ result.aa
    /\ result.ab = result.ba
    /\ (result.ab /\ result.bc) => result.ac

\* two packets that differ in sequence alone compared equal, and a third
\* that differs in data did not
C4_Witness ==
  /\ pc = "compared"
  /\ value[1].sequence # value[2].sequence /\ result.ab
  /\ value[1].data # value[3].data /\ ~result.ac

\* C5: decoding a proper prefix of a valid encoding of an object returns
\* Err(SerdeError), and SerdeError is the only error Object::decode returns.
C5_TruncationRejected ==
  (pc = "decoded" /\ kind \in ObjectKinds) =>
    /\ tamper.op = "truncate" => result = Err("SerdeError")
    /\ ~result.ok => result.err = "SerdeError"

\* a ChannelEnd's encoding without its last byte was refused
C5_Witness ==
  /\ pc = "decoded" /\ kind = "ChannelEnd"
  /\ tamper.op = "truncate" /\ tamper.n = 1
  /\ value.connection_hops # <<>>
  /\ result = Err("SerdeError")

\* C6: decode fails when the list holds more items than the struct has
\* fields, and when bytes follow the encoding.
C6_SurplusRejected ==
  (pc = "decoded" /\ tamper.op \in {"surplus", "trailing"}) => ~result.ok

\* no string for Some(""), Some("") for no string, anything else unchanged
FlipAbsent(o) == IF o = <<>> THEN << <<>> >> ELSE IF o = << <<>> >> THEN <<>> ELSE o

\* C7: a counterparty without connection_id and the same counterparty with
\* the empty connection_id have different encodings, and each decodes to
\* itself, alone and inside a ConnectionEnd.
C7_AbsentIsNotEmpty ==
  /\ (pc = "encoded" /\ kind = "ConnectionCounterparty"
        /\ value.connection_id \in {<<>>, << <<>> >>})
       => bytes # ConnectionCounterparty_rlp_append(
                    [value EXCEPT !.connection_id = FlipAbsent(@)])
  /\ (pc = "encoded" /\ kind = "ConnectionEnd"
        /\ value.counterparty.connection_id \in {<<>>, << <<>> >>})
       => bytes # ConnectionEnd_encode(
                    [value EXCEPT !.counterparty.connection_id = FlipAbsent(@)])
  /\ (pc = "decoded" /\ tamper = NoTamper /\ kind = "ConnectionCounterparty")
       => (result.ok /\ result.val.connection_id = value.connection_id)
  /\ (pc = "decoded" /\ tamper = NoTamper /\ kind = "ConnectionEnd")
       => (result.ok
           /\ result.val.counterparty.connection_id = value.counterparty.connection_id)

\* the empty connection_id inside a ConnectionEnd came back present and empty
C7_Witness ==
  /\ pc = "decoded" /\ tamper = NoTamper /\ kind = "ConnectionEnd"
  /\ value.counterparty.connection_id = << <<>> >>
  /\ result.ok /\ result.val.counterparty.connection_id = << <<>> >>

\* C8: a State or Ordering is encoded as a list of exactly one item, its
\* tag, never as the tag alone; the encoding is the encoding of no unsigned
\* integer, and the tag alone does not decode.
C8_EnumIsSingletonList ==
  /\ (pc = "encoded" /\ kind \in EnumKinds) =>
       /\ is_list(bytes)
       /\ iter(bytes) = << <<index_of(VariantsOf(kind), value)>> >>
       /\ Len(bytes) = 2
       /\ \A n \in 0..255 : bytes # u8_encode(n)
       /\ \A n \in U16Vals : bytes # u16_encode(n)
       /\ \A n \in U64Vals : bytes # u64_encode(n)
  /\ (pc = "decoded" /\ kind \in EnumKinds /\ tamper.op = "bare") => ~result.ok

\* the bare tag 3 was refused
C8_Witness ==
  /\ pc = "decoded" /\ kind = "Ordering" /\ tamper.op = "bare" /\ tamper.n = 3
  /\ ~result.ok

\* the payload of the item at position i (from 0) of the encoded list
ItemPayload(i) == decode_value(iter(bytes)[i + 1]).val

\* a byte string without a leading zero byte
Minimal(p) == p = <<>> \/ p[1] # 0

\* the integer field at position i of a Packet or a ConnectionEnd
IntField(v, k, i) ==
  IF k = "ConnectionEnd" THEN v.delay_period
  ELSE IF i = 0 THEN v.sequence
  ELSE IF i = 6 THEN v.timeout_height
  ELSE v.timeout_timestamp

\* the value of a payload, as the field at position i holds it
IntOfPayload(p, k, i) == IF k = "Packet" /\ i = 0 THEN be_value(p) ELSE pad8(p)

\* C9: sequence (16 bits), timeout_height, timeout_timestamp and
\* delay_period (64 bits) are encoded as their minimal big-endian byte
\* string (zero as the empty string) and come back unchanged, 0 and the
\* maximum included; an item with a leading zero byte or wider than the
\* field is refused with SerdeError.
C9_Integers ==
  /\ (pc = "encoded" /\ kind \in {"Packet", "ConnectionEnd"}) =>
       \A i \in IntFields(kind) :
         /\ Minimal(ItemPayload(i))
         /\ iter(bytes)[i + 1] = encode_value(ItemPayload(i))
         /\ IntOfPayload(ItemPayload(i), kind, i) = IntField(value, kind, i)
  /\ (pc = "decoded" /\ tamper = NoTamper /\ kind \in {"Packet", "ConnectionEnd"}) =>
       /\ result.ok
       /\ \A i \in IntFields(kind) : IntField(result.val, kind, i) = IntField(value, kind, i)
  /\ (pc = "decoded" /\ tamper.op = "int") =>
       IF ~Minimal(tamper.item) \/ Len(tamper.item) > IntWidth(kind, tamper.n)
       THEN result = Err("SerdeError")
       ELSE /\ result.ok
            /\ IntField(result.val, kind, tamper.n)
                 = IntOfPayload(tamper.item, kind, tamper.n)

\* a sequence item holding 65536 was refused
C9_Witness ==
  /\ pc = "decoded" /\ kind = "Packet"
  /\ tamper.op = "int" /\ tamper.n = 0 /\ tamper.item = <<1, 0, 0>>
  /\ result = Err("SerdeError")

\* C10: the 25 variants of VerifyError convert, in declaration order, to
\* the codes 100 (FoundNoMessage) to 124 (WrongPacketArgs), SerdeError to
\* 103; every code is within -128..127 and no two variants share one.
C10_ErrorCodes ==
  /\ Len(VerifyErrorVariants) = 25
  /\ pc = "converted" =>
       /\ result[1] \in 100..124
       /\ result[1] = 99 + index_of(VerifyErrorVariants, value[1])
       /\ value[1] = "FoundNoMessage" => result[1] = 100
       /\ value[1] = "SerdeError" => result[1] = 103
       /\ value[1] = "WrongPacketArgs" => result[1] = 124
       /\ value[1] # value[2] => result[1] # result[2]

\* the last variant was converted, next to a different one
C10_Witness ==
  /\ pc = "converted"
  /\ value[1] = "WrongPacketArgs" /\ value[2] = "SerdeError"
  /\ result = <<124, 103>>

====
